---- MODULE Spec2Model ----
(***************************************************************************)
(* A model of the parametric SFZH builders and their addition              *)
(* (synthesizer/parametric/stars.py), of the AGN emission-model recipes    *)
(* (synthesizer/emission_models/agn/models.py) and of the parametric       *)
(* young-stars example (examples/cosmo/test_parametric_young_stars.py).    *)
(*                                                                         *)
(* Numbers.  numpy floats are modelled by exact rationals <<n, d>> in      *)
(* lowest terms with d > 0, extended by the IEEE specials the code can     *)
(* produce: <<0, 0>> is NaN (0/0), <<1, 0>> and <<-1, 0>> are +-inf.       *)
(* Rounding error is not modelled.  Log-ages are integers, so that         *)
(* 10**log10ages is an exact integer number of years; metallicities are    *)
(* positive integers (a fixed scaling of Z).                               *)
(***************************************************************************)
EXTENDS Integers, Sequences, FiniteSets, TLC

\* ------------------------------------------------------------------ bounds
\* Largest log10(age/yr) of a bin centre or of a requested age.
MaxLogAge == 2
\* Largest (scaled) metallicity of a bin centre or of a requested metallicity.
MaxMetallicity == 3
\* Largest number of bins along one axis.
MaxBins == 3
\* Largest requested stellar mass.
MaxMass == 2
\* Largest constant star formation rate.
MaxRate == 1
\* Largest number of additions in one run.
MaxAdds == 2
\* Largest covering fraction a caller gives, in tenths.
MaxCovering == 2
\* Largest number of star particles in a galaxy.
MaxParticles == 2

\* --------------------------------------------------------------- numerics
Abs(x) == IF x < 0 THEN -x ELSE x

Sign(x) == IF x > 0 THEN 1 ELSE IF x < 0 THEN -1 ELSE 0

RECURSIVE GCD(_, _)
GCD(a, b) == IF b = 0 THEN a ELSE GCD(b, a % b)

\* float('nan'), as numpy produces it for 0/0.
NaN == <<0, 0>>

\* The float with value n/d (d >= 0); d = 0 gives NaN or a signed infinity.
Rat(n, d) ==
    IF d = 0 THEN <<Sign(n), 0>>
    ELSE LET g == GCD(Abs(n), d) IN <<n \div g, d \div g>>

Int2Rat(n) == <<n, 1>>

IsNaN(x) == x = NaN

IsFinite(x) == x[2] # 0

\* x + y on floats.
RAdd(x, y) ==
    IF IsNaN(x) \/ IsNaN(y) THEN NaN
    ELSE IF ~IsFinite(x) /\ ~IsFinite(y) THEN (IF x = y THEN x ELSE NaN)
    ELSE IF ~IsFinite(x) THEN x
    ELSE IF ~IsFinite(y) THEN y
    ELSE Rat(x[1] * y[2] + y[1] * x[2], x[2] * y[2])

\* x * y on floats (0 * inf = NaN).
RMul(x, y) == Rat(x[1] * y[1], x[2] * y[2])

\* x / y on floats, numpy semantics: 0/0 = NaN, x/0 = +-inf, no exception.
RDiv(x, y) ==
    IF IsNaN(x) \/ IsNaN(y) THEN NaN
    ELSE IF ~IsFinite(x) /\ ~IsFinite(y) THEN NaN
    ELSE IF ~IsFinite(y) THEN <<0, 1>>
    ELSE IF y[1] = 0 THEN Rat(x[1], 0)
    ELSE Rat(Sign(y[1]) * x[1] * y[2], x[2] * Abs(y[1]))

RECURSIVE SumSeq(_)
\* np.sum over a 1D array of floats.
SumSeq(s) == IF s = <<>> THEN <<0, 1>> ELSE RAdd(Head(s), SumSeq(Tail(s)))

\* ----------------------------------------------------------------- arrays
\* The shape of a 2D array stored as a sequence of rows.
Shape(m) == <<Len(m), IF Len(m) = 0 THEN 0 ELSE Len(m[1])>>

\* A 1D and a 2D array as stored values (each cell computed once).
Array1(f) == SubSeq(f, 1, Len(f))

Array2(m) == Array1([i \in 1..Len(m) |-> Array1(m[i])])

\* np.zeros((na, nz)).
Zeros(na, nz) == Array2([i \in 1..na |-> [j \in 1..nz |-> <<0, 1>>]])

\* np.sum(m, axis=1): one entry per row (age bin).
SumAxis1(m) == Array1([i \in 1..Len(m) |-> SumSeq(m[i])])

\* np.sum(m, axis=0): one entry per column (metallicity bin).
SumAxis0(m) ==
    Array1([j \in 1..Shape(m)[2] |-> SumSeq([i \in 1..Len(m) |-> m[i][j]])])

\* np.sum(m): the sum of every cell.
SumAll(m) == SumSeq(SumAxis1(m))

\* m + n, elementwise, on arrays of one shape.
\* The sum that keeps only its first operand.
MatAddKeepFirst(m, n) == m

MatAdd(m, n) ==
    Array2([i \in 1..Len(m) |-> [j \in 1..Len(m[i]) |-> RAdd(m[i][j], n[i][j])]])

\* m / x and m * x with a scalar x, elementwise.
MatDiv(m, x) ==
    Array2([i \in 1..Len(m) |-> [j \in 1..Len(m[i]) |-> RDiv(m[i][j], x)]])

MatMul(m, x) ==
    Array2([i \in 1..Len(m) |-> [j \in 1..Len(m[i]) |-> RMul(m[i][j], x)]])

\* (np.abs(xs - t)).argmin() without the np.abs: the index of the smallest
\* signed difference.
ArgMinSigned(xs, t) ==
    CHOOSE i \in DOMAIN xs :
        /\ \A k \in DOMAIN xs : xs[i] - t <= xs[k] - t
        /\ \A k \in DOMAIN xs : k < i => xs[k] - t > xs[i] - t

\* (np.abs(xs - t)).argmin(): the first index of the smallest |xs[i] - t|.
ArgMinAbs(xs, t) ==
    CHOOSE i \in DOMAIN xs :
        /\ \A k \in DOMAIN xs : Abs(xs[i] - t) <= Abs(xs[k] - t)
        /\ \A k \in DOMAIN xs : k < i => Abs(xs[k] - t) > Abs(xs[i] - t)

\* Strictly increasing arrays of 2..MaxBins values drawn from lo..hi.
BinArrays(lo, hi) ==
    { s \in UNION { [1..n -> lo..hi] : n \in 2..MaxBins } :
        \A i \in 1..(Len(s) - 1) : s[i] < s[i + 1] }

\* The age grids (log10 years) and metallicity grids a caller may pass.
Log10AgeArrays == BinArrays(0, MaxLogAge)

MetallicityArrays == BinArrays(1, MaxMetallicity)

\* ---------------------------------------------------------------- state
VARIABLES
    arrays,     \* the heap of 2D density arrays: object id -> contents
    stars,      \* the caller's names bound to Stars instances
    last,       \* the last call on stars.py: its name, arguments and outcome
    nAdds,      \* the number of additions made
    call,       \* the last constructor call on agn/models.py
    model,      \* what that call gave: an exception, or the model's nodes
    evaluated,  \* the labels evaluated so far in one evaluation, in order
    particles,  \* the star particles of the galaxy of the young-stars example
    pc,         \* where the young-stars example stands
    idx,        \* the particle its loop is at
    spectra     \* the spectra it has computed

starsVars == <<arrays, stars, last, nAdds>>

modelVars == <<call, model, evaluated>>

exampleVars == <<particles, pc, idx, spectra>>

\* The caller's names: the two operands of an addition and its result.
Names == {"a", "b", "c"}

\* Object ids of density arrays: one per name, and one for the array a call
\* allocates while every name is still bound.
ArrayIds == 1..4

\* An id with no live array.
Free == <<>>

\* ------------------------------------------------------------ Stars class
\* 10**log10ages.
Ages(log10ages) == Array1([i \in DOMAIN log10ages |-> 10 ^ log10ages[i]])

\* The metallicity grid type found by Stars.__init__: "Z" for equal
\* differences, "log10Z" for equal differences of log10 (equal ratios), else
\* "None".
MetallicityGrid(zs) ==
    IF \A i \in 1..(Len(zs) - 1) : zs[i + 1] - zs[i] = zs[2] - zs[1] THEN "Z"
    ELSE IF \A i \in 1..(Len(zs) - 1) : zs[i + 1] * zs[1] = zs[2] * zs[i]
         THEN "log10Z"
    ELSE "None"

\* Stars.__init__: the instance whose density array is the object sfzh_id
\* with contents sfzh.  The marginal histories are computed here, once.
StarsInit(log10ages, metallicities, sfzh_id, sfzh, sf_hist_func, metal_hist_func) ==
    [ log10ages |-> log10ages,
      ages |-> Ages(log10ages),
      log10ages_lims |-> <<log10ages[1], log10ages[Len(log10ages)]>>,
      metallicities |-> metallicities,
      metallicities_lims |-> <<metallicities[1], metallicities[Len(metallicities)]>>,
      sfzh |-> sfzh_id,
      sf_hist |-> SumAxis1(sfzh),
      metal_hist |-> SumAxis0(sfzh),
      sf_hist_func |-> sf_hist_func,
      metal_hist_func |-> metal_hist_func,
      metallicity_grid |-> MetallicityGrid(metallicities) ]

\* The value of an absent optional argument.
None == [none |-> TRUE]


\* ------------------------------------------------- SFH and ZDist objects
\* SFH.Constant(duration): a star formation rate that is `rate` up to the
\* age `duration` and zero beyond it.
Constant(rate, duration) == [kind |-> "Constant", rate |-> rate, duration |-> duration]

\* ZDist.DeltaConstant(metallicity), and a distribution of the continuous
\* "dist" type.
DeltaConstant(metallicity) == [dist |-> "delta", metallicity |-> metallicity]

Dist(metallicity) == [dist |-> "dist", metallicity |-> metallicity]

\* metal_hist.Z(age): the metallicity at an age.
ZAt(metal_hist, age) == metal_hist.metallicity

Min2(x, y) == IF x < y THEN x ELSE y

Max2(x, y) == IF x > y THEN x ELSE y

\* integrate.quad(sf_hist.sfr, min_age, max_age)[0], for min_age <= max_age.
Quad(sf_hist, min_age, max_age) ==
    sf_hist.rate * Max2(0, Min2(max_age, sf_hist.duration) - min_age)

\* ------------------------------------------------------------- builders
\* The density generate_instant_sfzh fills in.
InstantSfzh(log10ages, metallicities, log10age, metallicity, stellar_mass) ==
    LET ia == ArgMinAbs(log10ages, log10age)
        iZ == ArgMinAbs(metallicities, metallicity)
    IN  [Zeros(Len(log10ages), Len(metallicities)) EXCEPT ![ia][iZ] = Int2Rat(stellar_mass)]

\* max_age of age bin ia in generate_sfzh: int(np.mean([ages[ia+1], ages[ia]])).
MaxAgeOf(ages, ia) == (ages[ia + 1] + ages[ia]) \div 2

\* min_age of age bin ia: 0 for the first bin, then the previous max_age.
MinAgeOf(ages, ia) == IF ia = 1 THEN 0 ELSE MaxAgeOf(ages, ia - 1)

\* The delta branch of generate_sfzh: every age bin but the last gets its
\* integral, in the metallicity bin nearest to metal_hist.Z(age).
DeltaSfzh(log10ages, metallicities, sf_hist, metal_hist) ==
    LET ages == Ages(log10ages)
    IN  Array2([ia \in 1..Len(log10ages) |-> [j \in 1..Len(metallicities) |->
            IF /\ ia < Len(log10ages)
               /\ j = ArgMinAbs(metallicities, ZAt(metal_hist, ages[ia]))
            THEN Int2Rat(Quad(sf_hist, MinAgeOf(ages, ia), MaxAgeOf(ages, ia)))
            ELSE <<0, 1>>]])

\* The density before normalisation: the delta branch fills it, the "dist"
\* branch only prints a warning and leaves the zeros.
UnnormalisedSfzh(log10ages, metallicities, sf_hist, metal_hist) ==
    IF metal_hist.dist = "delta"
    THEN DeltaSfzh(log10ages, metallicities, sf_hist, metal_hist)
    ELSE Zeros(Len(log10ages), Len(metallicities))

\* sfzh /= np.sum(sfzh) without the following sfzh *= stellar_mass.
NormaliseUnscaled(sfzh, stellar_mass) == MatDiv(sfzh, SumAll(sfzh))

\* sfzh /= np.sum(sfzh); sfzh *= stellar_mass.
Normalise(sfzh, stellar_mass) ==
    MatMul(MatDiv(sfzh, SumAll(sfzh)), Int2Rat(stellar_mass))

\* The density generate_sfzh hands to Stars.
GenerateSfzh(log10ages, metallicities, sf_hist, metal_hist, stellar_mass) ==
    Normalise(UnnormalisedSfzh(log10ages, metallicities, sf_hist, metal_hist),
              stellar_mass)

\* A scalar metal_hist and an array one, as generate_sfzh_from_array
\* tells them apart with isinstance(metal_hist, np.ndarray).
Scalar(value) == [ndarray |-> FALSE, value |-> value]

NdArray(values) == [ndarray |-> TRUE, values |-> values]

\* The metal_hist array generate_sfzh_from_array works with: the caller's
\* array, or for a scalar the array that is 1.0 at the metallicity bin
\* nearest to it and zero elsewhere.
MetalHistArray(metallicities, metal_hist) ==
    IF metal_hist.ndarray THEN metal_hist.values
    ELSE LET iZ == ArgMinAbs(metallicities, metal_hist.value)
         IN  Array1([j \in 1..Len(metallicities) |-> IF j = iZ THEN 1 ELSE 0])

\* sf_hist[:, np.newaxis] * metal_hist
Outer(sf_hist, metal_hist) ==
    Array2([i \in 1..Len(sf_hist) |-> [j \in 1..Len(metal_hist) |->
        RMul(Int2Rat(sf_hist[i]), Int2Rat(metal_hist[j]))]])

\* The density generate_sfzh_from_array hands to Stars.
FromArraySfzh(log10ages, metallicities, sf_hist, metal_hist, stellar_mass) ==
    Normalise(Outer(sf_hist, MetalHistArray(metallicities, metal_hist)), stellar_mass)

\* ------------------------------------------------------ names and heap
Bound(n) == n \in DOMAIN stars

\* name = inst
Bind(n, inst) == [x \in DOMAIN stars \cup {n} |-> IF x = n THEN inst ELSE stars[x]]

\* The id of a newly allocated array: one no bound instance refers to.
FreshId ==
    CHOOSE i \in ArrayIds :
        /\ \A n \in DOMAIN stars : stars[n].sfzh # i
        /\ \A k \in ArrayIds : k < i => \E n \in DOMAIN stars : stars[n].sfzh = k

\* The heap after a call: the new contents, with every array that no name
\* refers to any more released.
Collect(heap, bound) ==
    [i \in ArrayIds |-> IF \E n \in DOMAIN bound : bound[n].sfzh = i THEN heap[i] ELSE Free]

\* The density array of the instance a name is bound to.
Sfzh(n) == arrays[stars[n].sfzh]

\* ------------------------------------------------------- Stars.__add__
\* Where self.sfzh + second_sfzh.sfzh is stored when the sum is made in place
\* (self.sfzh += second_sfzh.sfzh): in the left operand's own array.
NewSfzhInPlace(self_id, second_id) ==
    [ id |-> self_id,
      heap |-> [arrays EXCEPT ![self_id] = MatAdd(arrays[self_id], arrays[second_id])] ]

\* new_sfzh = self.sfzh + second_sfzh.sfzh: numpy allocates a new array for
\* the sum and leaves both operands' arrays as they are.
NewSfzh(self_id, second_id) ==
    [ id |-> FreshId,
      heap |-> [arrays EXCEPT ![FreshId] = MatAdd(arrays[self_id], arrays[second_id])] ]

\* The test of Stars.__add__: it raises unless the two density arrays have
\* the same shape.  The bins themselves are not compared.
AddRaises(self_sfzh, second_sfzh) == Shape(second_sfzh) # Shape(self_sfzh)

\* The bins Stars.__add__ gives its result: those of self.
AddBins(self, second) ==
    [log10ages |-> self.log10ages, metallicities |-> self.metallicities]

\* The bins and the density of the instance a name is bound to.
Value(n) ==
    [log10ages |-> stars[n].log10ages, metallicities |-> stars[n].metallicities,
     sfzh |-> Sfzh(n)]

\* self + second on values: the exception raised, or the bins and density
\* of the instance returned.
AddValue(self, second) ==
    IF AddRaises(self.sfzh, second.sfzh)
    THEN [exc |-> "InconsistentAddition"]
    ELSE [exc |-> "none",
          log10ages |-> AddBins(self, second).log10ages,
          metallicities |-> AddBins(self, second).metallicities,
          sfzh |-> MatAdd(self.sfzh, second.sfzh)]

\* --------------------------------------------------------------- actions
InitStars ==
    /\ arrays = [i \in ArrayIds |-> Free]
    /\ stars = <<>>
    /\ last = [op |-> "none"]
    /\ nAdds = 0

\* n = generate_instant_sfzh(log10ages, metallicities, log10age, metallicity,
\*                           stellar_mass)
generate_instant_sfzh(n, log10ages, metallicities, log10age, metallicity, stellar_mass) ==
    LET id == FreshId
        sfzh == InstantSfzh(log10ages, metallicities, log10age, metallicity, stellar_mass)
        new == Bind(n, StarsInit(log10ages, metallicities, id, sfzh, None, None))
    IN  /\ stars' = new
        /\ arrays' = Collect([arrays EXCEPT ![id] = sfzh], new)
        /\ last' = [op |-> "generate_instant_sfzh", name |-> n, exc |-> "none",
                    log10ages |-> log10ages, metallicities |-> metallicities,
                    log10age |-> log10age, metallicity |-> metallicity,
                    stellar_mass |-> stellar_mass]
        /\ UNCHANGED nAdds

\* n = generate_sfzh(log10ages, metallicities, sf_hist, metal_hist, stellar_mass)
generate_sfzh(n, log10ages, metallicities, sf_hist, metal_hist, stellar_mass) ==
    LET id == FreshId
        sfzh == GenerateSfzh(log10ages, metallicities, sf_hist, metal_hist, stellar_mass)
        new == Bind(n, StarsInit(log10ages, metallicities, id, sfzh, sf_hist, metal_hist))
    IN  /\ stars' = new
        /\ arrays' = Collect([arrays EXCEPT ![id] = sfzh], new)
        /\ last' = [op |-> "generate_sfzh", name |-> n, exc |-> "none",
                    log10ages |-> log10ages, metallicities |-> metallicities,
                    sf_hist |-> sf_hist, metal_hist |-> metal_hist,
                    stellar_mass |-> stellar_mass]
        /\ UNCHANGED nAdds

\* n = generate_sfzh_from_array(log10ages, metallicities, sf_hist, metal_hist,
\*                              stellar_mass)
generate_sfzh_from_array(n, log10ages, metallicities, sf_hist, metal_hist, stellar_mass) ==
    LET id == FreshId
        sfzh == FromArraySfzh(log10ages, metallicities, sf_hist, metal_hist, stellar_mass)
        new == Bind(n, StarsInit(log10ages, metallicities, id, sfzh, None, None))
    IN  /\ stars' = new
        /\ arrays' = Collect([arrays EXCEPT ![id] = sfzh], new)
        /\ last' = [op |-> "generate_sfzh_from_array", name |-> n, exc |-> "none",
                    log10ages |-> log10ages, metallicities |-> metallicities,
                    sf_hist |-> sf_hist, metal_hist |-> metal_hist,
                    stellar_mass |-> stellar_mass]
        /\ UNCHANGED nAdds

\* n = Stars(log10ages, metallicities, sfzh), with sfzh a 2D array of the
\* caller: __init__ makes no test of its shape and keeps the array itself.
Stars(n, log10ages, metallicities, sfzh) ==
    LET id == FreshId
        new == Bind(n, StarsInit(log10ages, metallicities, id, sfzh, None, None))
    IN  /\ stars' = new
        /\ arrays' = Collect([arrays EXCEPT ![id] = sfzh], new)
        /\ last' = [op |-> "Stars", name |-> n, exc |-> "none",
                    log10ages |-> log10ages, metallicities |-> metallicities,
                    sfzh |-> sfzh]
        /\ UNCHANGED nAdds

\* n = x + y  (Stars.__add__ with self = x, second_sfzh = y)
add(n, x, y) ==
    /\ last' = [op |-> "add", name |-> n, self |-> x, second |-> y,
                exc |-> IF AddRaises(Sfzh(x), Sfzh(y))
                        THEN "InconsistentAddition" ELSE "none"]
    /\ nAdds' = nAdds + 1
    /\ IF AddRaises(Sfzh(x), Sfzh(y))
       THEN UNCHANGED <<stars, arrays>>
       ELSE LET sum == NewSfzh(stars[x].sfzh, stars[y].sfzh)
                bins == AddBins(stars[x], stars[y])
                new == Bind(n, StarsInit(bins.log10ages, bins.metallicities,
                                         sum.id, sum.heap[sum.id], None, None))
            IN  /\ stars' = new
                /\ arrays' = Collect(sum.heap, new)

\* n = m: the name n is bound to the instance m is bound to, as the running
\* total of sum(stars[1:], stars[0]) is.
rebind(n, m) ==
    /\ stars' = Bind(n, stars[m])
    /\ arrays' = Collect(arrays, stars')
    /\ last' = [op |-> "rebind", name |-> n]
    /\ UNCHANGED nAdds

\* ============================================ emission_models/agn/models.py
\* Covering and escape fractions are counted in tenths: One is 1.0 and the
\* default covering fraction 0.1 is 1.
One == 10

DefaultCoveringFraction == 1

\* kwargs.get(key, default) for the keyword arguments a constructor passes on.
Get(kwargs, key, default) == IF key \in DOMAIN kwargs THEN kwargs[key] ELSE default

\* EmissionModel.__init__(self, label=label, **params): the node keeps its
\* label and the parameters it was given.
EmissionModel(label, params) == [label |-> label] @@ params

\* The node a constructor returns: the last one it made.
Top(nodes) == nodes[Len(nodes)]

\* Each constructor gives the nodes it made, its own node last.
NLRIncidentEmission(label, kwargs) ==
    <<EmissionModel(label,
        [grid |-> "grid", extract |-> "incident", line_region |-> "nlr"] @@ kwargs)>>

BLRIncidentEmission(label, kwargs) ==
    <<EmissionModel(label,
        [grid |-> "grid", extract |-> "incident", line_region |-> "blr"] @@ kwargs)>>

NLRTransmittedEmission(label, covering_fraction, kwargs) ==
    <<EmissionModel(label,
        [grid |-> "grid", fesc |-> covering_fraction, extract |-> "transmitted",
         line_region |-> "nlr"] @@ kwargs)>>

BLRTransmittedEmission(label, covering_fraction, kwargs) ==
    <<EmissionModel(label,
        [grid |-> "grid", fesc |-> covering_fraction, extract |-> "transmitted",
         line_region |-> "blr"] @@ kwargs)>>

DiscIncidentEmission(label, kwargs) ==
    <<EmissionModel(label,
        [grid |-> "grid", extract |-> "incident", line_region |-> "nlr"] @@ kwargs)>>

\* DiscTranmittedEmission with its children labelled after its own label.
DiscTranmittedEmissionOwnLabels(label, covering_fraction_blr, covering_fraction_nlr, kwargs) ==
    LET nlr == NLRTransmittedEmission("nlr_" \o label, covering_fraction_nlr, kwargs)
        blr == BLRTransmittedEmission("blr_" \o label, covering_fraction_blr, kwargs)
    IN  nlr \o blr \o
        <<EmissionModel(label,
            [grid |-> "grid", combine |-> <<Top(nlr).label, Top(blr).label>>] @@ kwargs)>>

DiscTranmittedEmission(label, covering_fraction_blr, covering_fraction_nlr, kwargs) ==
    LET nlr == NLRTransmittedEmission("nlr_transmitted", covering_fraction_nlr, kwargs)
        blr == BLRTransmittedEmission("blr_transmitted", covering_fraction_blr, kwargs)
    IN  nlr \o blr \o
        <<EmissionModel(label,
            [grid |-> "grid", combine |-> <<Top(nlr).label, Top(blr).label>>] @@ kwargs)>>

\* DiscEscapedEmission that leaves the BLR out of its escape fraction.
DiscEscapedEmissionWithoutBLR(label, covering_fraction_nlr, covering_fraction_blr, kwargs) ==
    <<EmissionModel(label,
        [grid |-> "grid", extract |-> "incident",
         fesc |-> One - covering_fraction_nlr] @@ kwargs)>>

DiscEscapedEmission(label, covering_fraction_nlr, covering_fraction_blr, kwargs) ==
    <<EmissionModel(label,
        [grid |-> "grid", extract |-> "incident",
         fesc |-> One - covering_fraction_nlr - covering_fraction_blr] @@ kwargs)>>

\* The keyword arguments left once the named ones are taken out.
Without(kwargs, keys) == [k \in DOMAIN kwargs \ keys |-> kwargs[k]]

CoveringKeys == {"covering_fraction_nlr", "covering_fraction_blr"}

\* DiscEmission passes **kwargs, the covering fractions among them, to both
\* children and to its own node.
DiscEmission(label, kwargs) ==
    LET rest == Without(kwargs, CoveringKeys)
        transmitted ==
            DiscTranmittedEmission("disc_transmitted",
                Get(kwargs, "covering_fraction_blr", DefaultCoveringFraction),
                Get(kwargs, "covering_fraction_nlr", DefaultCoveringFraction), rest)
        escaped ==
            DiscEscapedEmission("disc_escaped",
                Get(kwargs, "covering_fraction_nlr", DefaultCoveringFraction),
                Get(kwargs, "covering_fraction_blr", DefaultCoveringFraction), rest)
    IN  transmitted \o escaped \o
        <<EmissionModel(label,
            [grid |-> "grid",
             combine |-> <<Top(transmitted).label, Top(escaped).label>>] @@ kwargs)>>

\* TorusEmission that forgets its scaling source.
TorusEmissionUnscaled(torus_emission_model, scale_by, label, kwargs) ==
    <<EmissionModel(label, [dust_emission_model |-> torus_emission_model] @@ kwargs)>>

\* TorusEmission: scale_by is the node (given by its label) whose result
\* scales the torus emission.
TorusEmission(torus_emission_model, scale_by, label, kwargs) ==
    <<EmissionModel(label,
        [dust_emission_model |-> torus_emission_model,
         dust_lum_intrinsic |-> scale_by] @@ kwargs)>>

AGNIntrinsicEmission(label, covering_fraction_nlr, covering_fraction_blr, kwargs) ==
    LET incident == DiscIncidentEmission("disc_incident", kwargs)
        disc == DiscEmission("disc",
                    [covering_fraction_nlr |-> covering_fraction_nlr,
                     covering_fraction_blr |-> covering_fraction_blr] @@ kwargs)
        torus == TorusEmission("grid.dust_emission_model", Top(incident).label,
                               "torus", kwargs)
    IN  incident \o disc \o torus \o
        <<EmissionModel(label,
            [grid |-> "grid", combine |-> <<Top(disc).label, Top(torus).label>>] @@ kwargs)>>

\* Template.__init__, with the file test made before the units tests.
TemplateExcFileFirst(filename, lam, lnu) ==
    IF filename \notin {"None", ""} THEN "UnimplementedFunctionality"
    ELSE IF lam # "None" /\ lam # "unyt_array" THEN "MissingUnits"
    ELSE IF lnu # "None" /\ lnu # "unyt_array" THEN "MissingUnits"
    ELSE IF lam # "None" /\ lnu # "None" THEN "none"
    ELSE "MissingArgument"

\* The exception Template.__init__ raises ("none": it returns).  lam and lnu
\* are "None", "ndarray" (an array without units) or "unyt_array"; `if
\* filename:` is false for None and for the empty string.
TemplateExc(filename, lam, lnu) ==
    IF lam # "None" /\ lam # "unyt_array" THEN "MissingUnits"
    ELSE IF lnu # "None" /\ lnu # "unyt_array" THEN "MissingUnits"
    ELSE IF filename \notin {"None", ""} THEN "UnimplementedFunctionality"
    ELSE IF lam # "None" /\ lnu # "None" THEN "none"
    ELSE "MissingArgument"

\* The node of a Template: its spectrum is normalised by its bolometric
\* luminosity as it is built.
Template(label, lam, lnu, fesc) ==
    <<EmissionModel(label,
        [grid |-> "None", fesc |-> fesc,
         sed |-> [lam |-> lam, lnu |-> "lnu / normalisation"],
         normalisation |-> "sed.measure_bolometric_luminosity()",
         is_template |-> TRUE])>>

\* ---------------------------------------------- the graph of a model
\* The labels a node's result is computed from: its combine children and
\* its scaling source.
Operands(node) ==
    (IF "combine" \in DOMAIN node
        THEN {node.combine[i] : i \in DOMAIN node.combine} ELSE {})
    \cup (IF "dust_lum_intrinsic" \in DOMAIN node THEN {node.dust_lum_intrinsic} ELSE {})

RECURSIVE Reach(_, _)
\* The labels reached from the labels in `from` through operands.
Reach(nodes, from) ==
    LET next == from \cup UNION { Operands(nodes[i]) :
                                  i \in { k \in DOMAIN nodes : nodes[k].label \in from } }
    IN  IF next = from THEN from ELSE Reach(nodes, next)

\* The nodes of the graph under the top node.
GraphNodes(nodes) ==
    { i \in DOMAIN nodes : nodes[i].label \in Reach(nodes, {Top(nodes).label}) }

\* Whether two nodes of the graph share a label.
Collides(nodes) ==
    \E i \in GraphNodes(nodes), j \in GraphNodes(nodes) :
        i # j /\ nodes[i].label = nodes[j].label

\* What constructing the model gives: LabelCollision and no model, or the
\* graph as label -> node.
Construct(nodes) ==
    IF Collides(nodes) THEN [exc |-> "LabelCollision"]
    ELSE [exc |-> "none",
          root |-> Top(nodes).label,
          nodes |-> [l \in {nodes[i].label : i \in GraphNodes(nodes)} |->
                        nodes[CHOOSE i \in GraphNodes(nodes) : nodes[i].label = l]]]

\* ------------------------------------------------------------- actions
InitModels ==
    /\ call = [cls |-> "none"]
    /\ model = [exc |-> "none", root |-> "None", nodes |-> <<>>]
    /\ evaluated = <<>>

\* The labels a caller may give: every label the recipes fix, and its own.
Labels ==
    {"nlr_incident", "blr_incident", "nlr_transmitted", "blr_transmitted",
     "disc_incident", "disc_transmitted", "disc_escaped", "disc", "torus",
     "intrinsic", "template", "my_model"}

\* The covering fractions a caller may give, in tenths.
CoveringFractions == 0..MaxCovering

NoCall == call.cls = "none"

Made(cls, label, args, nodes) ==
    /\ call' = [cls |-> cls, label |-> label] @@ args
    /\ model' = Construct(nodes)
    /\ UNCHANGED <<evaluated, starsVars, exampleVars>>

NewTemplate ==
    /\ NoCall
    /\ \E label \in {"template", "my_model"}, filename \in {"None", "", "template.txt"},
          lam \in {"None", "ndarray", "unyt_array"},
          lnu \in {"None", "ndarray", "unyt_array"}, fesc \in {0, MaxCovering} :
        /\ call' = [cls |-> "Template", label |-> label, filename |-> filename,
                    lam |-> lam, lnu |-> lnu, fesc |-> fesc]
        /\ model' = IF TemplateExc(filename, lam, lnu) = "none"
                    THEN Construct(Template(label, lam, lnu, fesc))
                    ELSE [exc |-> TemplateExc(filename, lam, lnu)]
        /\ UNCHANGED <<evaluated, starsVars, exampleVars>>

NewNLRIncidentEmission ==
    /\ NoCall
    /\ \E label \in Labels :
        Made("NLRIncidentEmission", label, <<>>, NLRIncidentEmission(label, <<>>))

NewBLRIncidentEmission ==
    /\ NoCall
    /\ \E label \in Labels :
        Made("BLRIncidentEmission", label, <<>>, BLRIncidentEmission(label, <<>>))

NewNLRTransmittedEmission ==
    /\ NoCall
    /\ \E label \in Labels, cf \in CoveringFractions :
        Made("NLRTransmittedEmission", label, [covering_fraction |-> cf],
             NLRTransmittedEmission(label, cf, <<>>))

NewBLRTransmittedEmission ==
    /\ NoCall
    /\ \E label \in Labels, cf \in CoveringFractions :
        Made("BLRTransmittedEmission", label, [covering_fraction |-> cf],
             BLRTransmittedEmission(label, cf, <<>>))

NewDiscIncidentEmission ==
    /\ NoCall
    /\ \E label \in Labels :
        Made("DiscIncidentEmission", label, <<>>, DiscIncidentEmission(label, <<>>))

NewDiscTranmittedEmission ==
    /\ NoCall
    /\ \E label \in Labels, cb \in CoveringFractions, cn \in CoveringFractions :
        Made("DiscTranmittedEmission", label,
             [covering_fraction_blr |-> cb, covering_fraction_nlr |-> cn],
             DiscTranmittedEmission(label, cb, cn, <<>>))

NewDiscEscapedEmission ==
    /\ NoCall
    /\ \E label \in Labels, cn \in CoveringFractions, cb \in CoveringFractions :
        Made("DiscEscapedEmission", label,
             [covering_fraction_nlr |-> cn, covering_fraction_blr |-> cb],
             DiscEscapedEmission(label, cn, cb, <<>>))

\* The keyword arguments a caller of DiscEmission may give: none, or covering
\* fractions.
DiscKwargs ==
    {<<>>} \cup { [covering_fraction_nlr |-> cn, covering_fraction_blr |-> cb] :
                  cn \in CoveringFractions, cb \in CoveringFractions }

NewDiscEmission ==
    /\ NoCall
    /\ \E label \in Labels, kwargs \in DiscKwargs :
        Made("DiscEmission", label, [kwargs |-> kwargs], DiscEmission(label, kwargs))

NewTorusEmission ==
    /\ NoCall
    /\ \E label \in Labels :
        LET scale_by == DiscIncidentEmission("disc_incident", <<>>)
        IN  Made("TorusEmission", label, [scale_by |-> Top(scale_by).label],
                 scale_by \o TorusEmission("dust_emission_model", Top(scale_by).label,
                                           label, <<>>))

NewAGNIntrinsicEmission ==
    /\ NoCall
    /\ \E label \in Labels, cn \in CoveringFractions, cb \in CoveringFractions :
        Made("AGNIntrinsicEmission", label,
             [covering_fraction_nlr |-> cn, covering_fraction_blr |-> cb],
             AGNIntrinsicEmission(label, cn, cb, <<>>))

\* One step of an evaluation of the model: a node none of whose operands is
\* still to be evaluated is evaluated, once.
Evaluate ==
    /\ ~NoCall
    /\ model.exc = "none"
    /\ \E l \in DOMAIN model.nodes :
        /\ \A k \in DOMAIN evaluated : evaluated[k] # l
        /\ \A o \in Operands(model.nodes[l]) : \E k \in DOMAIN evaluated : evaluated[k] = o
        /\ evaluated' = Append(evaluated, l)
        /\ UNCHANGED <<call, model, starsVars, exampleVars>>

NextModels ==
    \/ NewTemplate
    \/ NewNLRIncidentEmission
    \/ NewBLRIncidentEmission
    \/ NewNLRTransmittedEmission
    \/ NewBLRTransmittedEmission
    \/ NewDiscIncidentEmission
    \/ NewDiscTranmittedEmission
    \/ NewDiscEscapedEmission
    \/ NewDiscEmission
    \/ NewTorusEmission
    \/ NewAGNIntrinsicEmission
    \/ Evaluate

\* ------------------------------------------------- the builders, alone
\* The star formation histories and metallicity distributions a caller passes.
SfHists == { Constant(r, d) : r \in 1..MaxRate, d \in {10, 100} }

MetalHists ==
    { DeltaConstant(z) : z \in 0..(MaxMetallicity + 1) } \cup { Dist(1) }

CallInstant ==
    /\ ~Bound("a")
    /\ UNCHANGED <<modelVars, exampleVars>>
    /\ \E la \in Log10AgeArrays, zs \in MetallicityArrays,
          t \in 0..(MaxLogAge + 1), z \in 0..(MaxMetallicity + 1), m \in 0..MaxMass :
           generate_instant_sfzh("a", la, zs, t, z, m)

CallSfzh ==
    /\ ~Bound("a")
    /\ UNCHANGED <<modelVars, exampleVars>>
    /\ \E la \in Log10AgeArrays, zs \in MetallicityArrays,
          sf \in SfHists, mh \in MetalHists, m \in 0..MaxMass :
           generate_sfzh("a", la, zs, sf, mh, m)

NextBuild == CallInstant \/ CallSfzh

\* --------------------------------------------- builders and additions
\* The grids the operands of an addition are built on: age grids of two
\* shapes, and two grids of one shape with different bins along each axis.
OperandLog10Ages == {<<0, 1>>, <<1, 2>>, <<0, 1, 2>>}

OperandMetallicities == {<<1, 2>>, <<1, 3>>}

BuildInstant ==
    \E n \in {"a", "b"} :
        /\ ~Bound(n)
        /\ UNCHANGED <<modelVars, exampleVars>>
        /\ \E la \in OperandLog10Ages, zs \in OperandMetallicities,
              m \in 1..MaxMass :
               generate_instant_sfzh(n, la, zs, 2, 1, m)

BuildSfzh ==
    \E n \in {"a", "b"} :
        /\ ~Bound(n)
        /\ UNCHANGED <<modelVars, exampleVars>>
        /\ \E la \in OperandLog10Ages, zs \in OperandMetallicities, m \in 1..MaxMass :
               generate_sfzh(n, la, zs, Constant(1, 10), DeltaConstant(3), m)

BuildFromArray ==
    \E n \in {"a", "b"} :
        /\ ~Bound(n)
        /\ UNCHANGED <<modelVars, exampleVars>>
        /\ \E la \in OperandLog10Ages :
               generate_sfzh_from_array(n, la, <<1, 2>>, Array1([i \in DOMAIN la |-> i]),
                                        NdArray(<<2, 1>>), 1)

Add ==
    \E x \in {"a", "b"}, y \in {"a", "b"} :
        /\ Bound(x) /\ Bound(y)
        /\ nAdds < MaxAdds
        /\ add("c", x, y)
        /\ UNCHANGED <<modelVars, exampleVars>>

Rebind ==
    /\ Bound("c")
    /\ last.op = "add"
    /\ rebind("a", "c")
    /\ UNCHANGED <<modelVars, exampleVars>>

NextAdd == BuildInstant \/ BuildSfzh \/ BuildFromArray \/ Add \/ Rebind

\* ------------------------------------------------- construction from arrays
\* The histories a caller may pass for n bins: all zero, all one, and two
\* uneven ones.
Histories(n) ==
    { Array1([i \in 1..n |-> (a * i + b) % (MaxRate + 2)]) : a \in 0..1, b \in 0..1 }

\* The 2D densities a caller may pass: every shape up to MaxBins x MaxBins,
\* with cells that are all zero, all equal, or uneven.
Densities ==
    { Array2([i \in 1..na |-> [j \in 1..nz |->
            Int2Rat((a * i + b * j + c) % (MaxMass + 1))]]) :
        na \in 1..MaxBins, nz \in 1..MaxBins, a \in 0..1, b \in 0..1, c \in 0..1 }

CallStars ==
    /\ ~Bound("a")
    /\ UNCHANGED <<modelVars, exampleVars>>
    /\ \E la \in Log10AgeArrays, zs \in MetallicityArrays, sfzh \in Densities :
           Stars("a", la, zs, sfzh)

CallFromArray ==
    /\ ~Bound("a")
    /\ UNCHANGED <<modelVars, exampleVars>>
    /\ \E la \in Log10AgeArrays, zs \in MetallicityArrays, m \in 0..MaxMass :
       \E sf \in Histories(Len(la)),
          mh \in { Scalar(z) : z \in 0..(MaxMetallicity + 1) }
                 \cup { NdArray(h) : h \in Histories(Len(zs)) } :
           generate_sfzh_from_array("a", la, zs, sf, mh, m)

NextArrays == CallStars \/ CallFromArray

\* =================================== examples/cosmo/test_parametric_young_stars.py
\* The grid of the example: its age and metallicity axes and, per grid point,
\* an incident spectrum of two wavelengths.
GridLog10Age == Array1([i \in 1..(MaxLogAge + 1) |-> i - 1])

GridMetallicity == <<1, MaxMetallicity>>

GridSpectra ==
    [i \in DOMAIN GridLog10Age |-> [j \in DOMAIN GridMetallicity |->
        <<Int2Rat((2 ^ i) * (3 ^ j)), Int2Rat(i + 10 * j)>>]]

Wavelengths == 1..2

\* age_lim, as log10 of years: an age within the grid.
AgeLimLog10 == MaxLogAge - 1

\* Element-wise sum of two spectra, and a spectrum times a weight.
LnuAdd(u, v) == Array1([k \in Wavelengths |-> RAdd(u[k], v[k])])

LnuScale(w, u) == Array1([k \in Wavelengths |-> RMul(w, u[k])])

RECURSIVE LnuSum(_)
LnuSum(us) ==
    IF us = <<>> THEN Array1([k \in Wavelengths |-> <<0, 1>>])
    ELSE LnuAdd(Head(us), LnuSum(Tail(us)))

\* The incident spectrum of a parametric population: every bin's spectrum
\* weighted by the bin's density.
ParametricSpectrum(sfzh) ==
    LnuSum([c \in 1..(Len(GridLog10Age) * Len(GridMetallicity)) |->
        LET i == ((c - 1) \div Len(GridMetallicity)) + 1
            j == ((c - 1) % Len(GridMetallicity)) + 1
        IN  LnuScale(sfzh[i][j], GridSpectra[i][j])])

\* The incident spectrum of one star particle: the spectrum of the grid
\* point nearest to it, weighted by its initial mass.
ParticleSpectrum(p) ==
    LnuScale(Int2Rat(p.initial_mass),
             GridSpectra[ArgMinAbs(GridLog10Age, p.log10age)]
                        [ArgMinAbs(GridMetallicity, p.metallicity)])

\* pmask = gal.stars.ages < age_lim
Young(p) == 10 ^ p.log10age < 10 ^ AgeLimLog10

\* The parametric density that stands for one young particle: a constant
\* star formation rate over age_lim at the particle's metallicity, with the
\* particle's initial mass.
YoungSfzh(p) ==
    GenerateSfzh(GridLog10Age, GridMetallicity, Constant(1, 10 ^ AgeLimLog10),
                 DeltaConstant(p.metallicity), p.initial_mass)

\* get_spectra_incident(grid, old=age_lim): the particles that are not young.
ParticleSpectrumOld(ps) ==
    LnuSum([n \in DOMAIN ps |->
        IF Young(ps[n]) THEN LnuScale(<<0, 1>>, ParticleSpectrum(ps[n]))
        ELSE ParticleSpectrum(ps[n])])

\* get_spectra_incident(grid, parametric_young_stars=age_lim): every young
\* particle is replaced by its parametric density, the others are kept.
CombinedSpectrum(ps) ==
    LnuSum([n \in DOMAIN ps |->
        IF Young(ps[n]) THEN ParametricSpectrum(YoungSfzh(ps[n]))
        ELSE ParticleSpectrum(ps[n])])

\* The galaxies the example may load: one particle or more, each young, as
\* old as age_lim, or older.
Particles ==
    [log10age : {0, AgeLimLog10, MaxLogAge}, metallicity : {1, MaxMetallicity},
     initial_mass : {1, MaxMass}]

Galaxies == UNION { [1..n -> Particles] : n \in 1..MaxParticles }

InitExampleIdle ==
    /\ particles = <<>>
    /\ pc = "idle"
    /\ idx = 0
    /\ spectra = <<>>

InitExample ==
    /\ particles \in Galaxies
    /\ pc = "loop"
    /\ idx = 1
    /\ spectra = <<>>

\* The loop at a particle that is not young: nothing is built for it.
SkipOld ==
    /\ pc = "loop"
    /\ idx <= Len(particles)
    /\ ~Young(particles[idx])
    /\ idx' = idx + 1
    /\ UNCHANGED <<particles, pc, spectra, starsVars, modelVars>>

\* The loop at a young particle: its parametric Stars is built.
BuildYoung ==
    /\ pc = "loop"
    /\ idx <= Len(particles)
    /\ Young(particles[idx])
    /\ generate_sfzh("b", GridLog10Age, GridMetallicity, Constant(1, 10 ^ AgeLimLog10),
                     DeltaConstant(particles[idx].metallicity),
                     particles[idx].initial_mass)
    /\ pc' = "sum"
    /\ UNCHANGED <<particles, idx, spectra, modelVars>>

\* sum(stars[1:], stars[0]): the first instance starts the total ...
SumFirst ==
    /\ pc = "sum"
    /\ ~Bound("a")
    /\ rebind("a", "b")
    /\ pc' = "loop"
    /\ idx' = idx + 1
    /\ UNCHANGED <<particles, spectra, modelVars>>

\* ... and each later one is added to it.
SumNext ==
    /\ pc = "sum"
    /\ Bound("a")
    /\ add("c", "a", "b")
    /\ pc' = "total"
    /\ UNCHANGED <<particles, idx, spectra, modelVars>>

SumTotal ==
    /\ pc = "total"
    /\ rebind("a", "c")
    /\ pc' = "loop"
    /\ idx' = idx + 1
    /\ UNCHANGED <<particles, spectra, modelVars>>

\* With no young particle stars[0] raises IndexError.
NoYoung ==
    /\ pc = "loop"
    /\ idx > Len(particles)
    /\ ~Bound("a")
    /\ pc' = "IndexError"
    /\ UNCHANGED <<particles, idx, spectra, starsVars, modelVars>>

\* The three spectra of the example, up to its assert.
GetSpectra ==
    /\ pc = "loop"
    /\ idx > Len(particles)
    /\ Bound("a")
    /\ spectra' = [para_spec |-> ParametricSpectrum(Sfzh("a")),
                   part_spec_old |-> ParticleSpectrumOld(particles),
                   combined_spec |-> CombinedSpectrum(particles)]
    /\ pc' = "assert"
    /\ UNCHANGED <<particles, idx, starsVars, modelVars>>

NextExample ==
    SkipOld \/ BuildYoung \/ SumFirst \/ SumNext \/ SumTotal \/ NoYoung \/ GetSpectra

\* ------------------------------------------------------- specifications
vars == <<arrays, stars, last, nAdds, call, model, evaluated, particles, pc, idx, spectra>>

Init == InitStars /\ InitModels /\ InitExampleIdle

\* Calls of the builders of stars.py, one per run.
SpecBuild == Init /\ [][NextBuild]_vars

\* Builders and additions of stars.py.
SpecAdd == Init /\ [][NextAdd]_vars

\* Construction and evaluation of the models of agn/models.py.
SpecModels == Init /\ [][NextModels]_vars

\* Construction from arrays: Stars itself and generate_sfzh_from_array.
SpecArrays == Init /\ [][NextArrays]_vars

\* The young-stars example, for every galaxy it may load.
InitGalaxy == InitStars /\ InitModels /\ InitExample

SpecExample == InitGalaxy /\ [][NextExample]_vars

\* ================================================================ claims
\* Whether index i is nearest to t: it minimises |xs[i] - t|.
Nearest(xs, t, i) == \A k \in DOMAIN xs : Abs(xs[i] - t) <= Abs(xs[k] - t)

\* The cells of a 2D array that are not zero.
NonZeroCells(m) ==
    { c \in (1..Len(m)) \X (1..Shape(m)[2]) : m[c[1]][c[2]] # <<0, 1>> }

\* Claim C4 as stated: whatever the bins and the target (age, metallicity,
\* stellar_mass), generate_instant_sfzh returns a density with exactly one
\* non-zero cell, which holds stellar_mass and lies at an age index nearest to
\* the age and a metallicity index nearest to the metallicity.
C4_ExactlyOneNonZeroCell ==
    last.op = "generate_instant_sfzh" =>
        \E i \in DOMAIN last.log10ages, j \in DOMAIN last.metallicities :
            /\ Nearest(last.log10ages, last.log10age, i)
            /\ Nearest(last.metallicities, last.metallicity, j)
            /\ Sfzh(last.name)[i][j] = Int2Rat(last.stellar_mass)
            /\ NonZeroCells(Sfzh(last.name)) = {<<i, j>>}

\* Claim C4 as amended: generate_instant_sfzh returns a density of shape
\* (len(log10ages), len(metallicities)) whose cell at an age index nearest to
\* the age and a metallicity index nearest to the metallicity holds
\* stellar_mass, every other cell being zero; that cell is the one non-zero
\* cell when stellar_mass is not zero, and no cell is non-zero when it is.
C4_MassInNearestCell ==
    last.op = "generate_instant_sfzh" =>
        /\ Shape(Sfzh(last.name)) = <<Len(last.log10ages), Len(last.metallicities)>>
        /\ \E i \in DOMAIN last.log10ages, j \in DOMAIN last.metallicities :
            /\ Nearest(last.log10ages, last.log10age, i)
            /\ Nearest(last.metallicities, last.metallicity, j)
            /\ Sfzh(last.name)[i][j] = Int2Rat(last.stellar_mass)
            /\ NonZeroCells(Sfzh(last.name)) =
                   IF last.stellar_mass = 0 THEN {} ELSE {<<i, j>>}

\* C4's case: a non-zero mass was placed in a grid of three age bins, for a
\* target age beyond the first bin and a metallicity half-way between two bins.
C4_Witness ==
    /\ last.op = "generate_instant_sfzh"
    /\ last.stellar_mass = MaxMass
    /\ Len(last.log10ages) = 3
    /\ last.log10age > last.log10ages[1]
    /\ \E j \in 1..(Len(last.metallicities) - 1) :
           2 * last.metallicity = last.metallicities[j] + last.metallicities[j + 1]
    /\ Cardinality(NonZeroCells(Sfzh(last.name))) = 1

\* Claim C5: with a constant star formation rate and a delta metallicity
\* distribution, the cells of the density generate_sfzh returns sum to the
\* requested stellar mass (age and metallicity grids of two bins or more).
C5_DensitySumsToMass ==
    (last.op = "generate_sfzh" /\ last.metal_hist.dist = "delta"
        /\ last.sf_hist.kind = "Constant") =>
        SumAll(Sfzh(last.name)) = Int2Rat(last.stellar_mass)

\* C5's case: generate_sfzh spread a mass other than 0 and 1 over two age bins.
C5_Witness ==
    /\ last.op = "generate_sfzh"
    /\ last.metal_hist.dist = "delta"
    /\ last.stellar_mass = MaxMass
    /\ Cardinality(NonZeroCells(Sfzh(last.name))) = 2

\* Claim C6: where the two density grids have one shape, a + b and b + a have
\* the same bins and the same density, and so have (a + b) + c and
\* a + (b + c); where the shapes differ the addition raises
\* InconsistentAddition.
C6_AddCommutesAndAssociates ==
    last.op = "add" =>
        LET a == Value(last.self)
            b == Value(last.second)
        IN  IF Shape(a.sfzh) = Shape(b.sfzh)
            THEN /\ last.exc = "none" =>
                        Value(last.name) = [x \in {"log10ages", "metallicities", "sfzh"} |->
                                               AddValue(a, b)[x]]
                 /\ AddValue(a, b) = AddValue(b, a)
                 /\ \A n \in DOMAIN stars :
                        Shape(Sfzh(n)) = Shape(a.sfzh) =>
                            AddValue(AddValue(a, b), Value(n)) =
                                AddValue(a, AddValue(b, Value(n)))
            ELSE last.exc = "InconsistentAddition"

\* Claim C7: adding two instances whose log-age bins or metallicity bins
\* differ raises InconsistentAddition, also when the densities have one shape.
C7_DifferentBinsRaise ==
    (last.op = "add" /\
        (\/ stars[last.self].log10ages # stars[last.second].log10ages
         \/ stars[last.self].metallicities # stars[last.second].metallicities)) =>
        last.exc = "InconsistentAddition"

\* Claim C8: a step n = x + y leaves the bins, the density and the marginal
\* histories of x and of y as they were, whether it raises or not; when it
\* does not raise, n is bound to a new instance whose density array is
\* neither operand's array.
C8_AddNeverMutates ==
    [][\A x \in {"a", "b"}, y \in {"a", "b"} :
          (Bound(x) /\ Bound(y) /\ add("c", x, y)) =>
              /\ \A n \in {x, y} :
                    /\ stars'[n] = stars[n]
                    /\ arrays'[stars[n].sfzh] = arrays[stars[n].sfzh]
              /\ last'.exc = "none" =>
                    /\ stars'["c"].sfzh \notin {stars[x].sfzh, stars[y].sfzh}
                    /\ arrays'[stars'["c"].sfzh] = MatAdd(Sfzh(x), Sfzh(y))
              /\ last'.exc # "none" =>
                    /\ stars' = stars
                    /\ arrays' = arrays]_vars

\* C8's case: an addition of two different instances has returned a result.
C8_Witness ==
    /\ last.op = "add"
    /\ last.exc = "none"
    /\ last.self # last.second
    /\ NonZeroCells(Sfzh(last.second)) # {}

\* Claim C9: generate_sfzh with a metallicity distribution of the "dist" type
\* raises UnimplementedFunctionality and returns no instance.
C9_DistIsRejected ==
    (last.op = "generate_sfzh" /\ last.metal_hist.dist = "dist") =>
        /\ last.exc = "UnimplementedFunctionality"
        /\ ~Bound(last.name)


\* ----------------------------------------------------------------- C1
\* Whether, in the evaluation so far, `first` was evaluated before `then`
\* whenever `then` was evaluated.
Before(first, then) ==
    \A k \in DOMAIN evaluated :
        evaluated[k] = then => \E h \in 1..(k - 1) : evaluated[h] = first

\* C1: in every evaluation of the graph AGNIntrinsicEmission builds,
\* disc_incident is evaluated before torus, nlr_transmitted and
\* blr_transmitted before disc_transmitted, disc_transmitted and
\* disc_escaped before disc, and disc and torus before the top node
\* (intrinsic, by default).
C1_OperandsEvaluatedFirst ==
    (call.cls = "AGNIntrinsicEmission" /\ model.exc = "none") =>
        /\ Before("disc_incident", "torus")
        /\ Before("nlr_transmitted", "disc_transmitted")
        /\ Before("blr_transmitted", "disc_transmitted")
        /\ Before("disc_transmitted", "disc")
        /\ Before("disc_escaped", "disc")
        /\ Before("disc", call.label)
        /\ Before("torus", call.label)
        /\ (call.label = "intrinsic" =>
                Before("disc", "intrinsic") /\ Before("torus", "intrinsic"))

\* The default AGNIntrinsicEmission evaluated to its top node, with torus
\* evaluated after disc.
C1_Witness ==
    /\ call.cls = "AGNIntrinsicEmission"
    /\ call.label = "intrinsic"
    /\ call.covering_fraction_nlr = DefaultCoveringFraction
    /\ call.covering_fraction_blr = DefaultCoveringFraction
    /\ Len(evaluated) = 8
    /\ evaluated[8] = "intrinsic"
    /\ evaluated[7] = "torus"
    /\ evaluated[6] = "disc"

\* ----------------------------------------------------------------- C3
\* The labels each composite recipe gives to the nodes under its top node.
FixedLabels(cls) ==
    CASE cls = "AGNIntrinsicEmission" ->
            {"disc_incident", "disc", "disc_transmitted", "nlr_transmitted",
             "blr_transmitted", "disc_escaped", "torus"}
      [] cls = "DiscEmission" ->
            {"disc_transmitted", "nlr_transmitted", "blr_transmitted", "disc_escaped"}
      [] cls = "DiscTranmittedEmission" -> {"nlr_transmitted", "blr_transmitted"}
      [] cls = "TorusEmission" -> {"disc_incident"}
      [] OTHER -> {}

\* C3: a composite model whose top label is one of the labels its recipe
\* gives to a node under it is refused with LabelCollision and no model is
\* built; and every model that is built has one node per label, all the
\* recipe's nodes among them.
C3_LabelCollision ==
    ~NoCall =>
        /\ (call.label \in FixedLabels(call.cls) =>
                model.exc = "LabelCollision" /\ "nodes" \notin DOMAIN model)
        /\ (call.cls # "Template" /\ call.label \notin FixedLabels(call.cls) =>
                /\ model.exc = "none"
                /\ DOMAIN model.nodes = FixedLabels(call.cls) \cup {call.label}
                /\ \A l \in DOMAIN model.nodes : model.nodes[l].label = l)

\* DiscTranmittedEmission called with the label of its own nlr child.
C3_Witness ==
    /\ call.cls = "DiscTranmittedEmission"
    /\ call.label = "nlr_transmitted"
    /\ model.exc = "LabelCollision"

\* ---------------------------------------------------------------- C10
\* C10 as stated: Template returns only when lam and lnu both carry units
\* and no filename is given; an array without units fails with MissingUnits,
\* a filename with UnimplementedFunctionality, neither a filename nor both
\* arrays with MissingArgument.
C10_CasesAsStated ==
    call.cls = "Template" =>
        LET file == call.filename # "None" /\ call.filename # ""
            both == call.lam # "None" /\ call.lnu # "None"
        IN  /\ (model.exc = "none" <=>
                    call.lam = "unyt_array" /\ call.lnu = "unyt_array" /\ ~file)
            /\ (call.lam = "ndarray" \/ call.lnu = "ndarray" =>
                    model.exc = "MissingUnits")
            /\ (file => model.exc = "UnimplementedFunctionality")
            /\ (~file /\ ~both => model.exc = "MissingArgument")

\* C10, amended: the tests are made in order.  An array given without units
\* fails with MissingUnits, whatever else is given; otherwise a non-empty
\* filename fails with UnimplementedFunctionality; otherwise lam and lnu
\* both given build the model; otherwise MissingArgument.  Nothing is built
\* when an exception is raised.
C10_CasesInOrder ==
    call.cls = "Template" =>
        LET unitless == call.lam = "ndarray" \/ call.lnu = "ndarray"
            file == call.filename # "None" /\ call.filename # ""
            both == call.lam # "None" /\ call.lnu # "None"
        IN  /\ (unitless => model.exc = "MissingUnits")
            /\ (~unitless /\ file => model.exc = "UnimplementedFunctionality")
            /\ (~unitless /\ ~file /\ both =>
                    /\ model.exc = "none"
                    /\ model.nodes[call.label].is_template
                    /\ model.nodes[call.label].fesc = call.fesc)
            /\ (~unitless /\ ~file /\ ~both => model.exc = "MissingArgument")
            /\ (model.exc # "none" => "nodes" \notin DOMAIN model)

\* A filename given together with an array without units.
C10_Witness ==
    /\ call.cls = "Template"
    /\ call.filename = "template.txt"
    /\ call.lam = "ndarray"
    /\ call.lnu = "unyt_array"
    /\ model.exc = "MissingUnits"

C11_ShapeMismatchRaised ==
    (last.op = "Stars"
        /\ Shape(last.sfzh) # <<Len(last.log10ages), Len(last.metallicities)>>) =>
        /\ last.exc = "ShapeMismatch"
        /\ ~Bound(last.name)

\* ---------------------------------------------------------------- C12
\* The sum of sf_hist[i] * metal_hist[j] over all cells, for the call made.
ProductTotal ==
    SumAll(Outer(last.sf_hist, MetalHistArray(last.metallicities, last.metal_hist)))

\* Cell (i, j) of the normalised product times the mass.
ProductCell(i, j) ==
    RDiv(RMul(Int2Rat(last.stellar_mass),
              RMul(Int2Rat(last.sf_hist[i]),
                   Int2Rat(MetalHistArray(last.metallicities, last.metal_hist)[j]))),
         ProductTotal)

VecAdd(u, v) == [i \in DOMAIN u |-> RAdd(u[i], v[i])]

\* C13: in every instance, sf_hist is the density summed over the
\* metallicity axis and metal_hist the density summed over the age axis; and
\* after c = a + b, c.sf_hist = a.sf_hist + b.sf_hist and
\* c.metal_hist = a.metal_hist + b.metal_hist.
C13_MarginalsAreSums ==
    /\ \A n \in DOMAIN stars :
        /\ stars[n].sf_hist = SumAxis1(Sfzh(n))
        /\ stars[n].metal_hist = SumAxis0(Sfzh(n))
        /\ Len(stars[n].sf_hist) = Shape(Sfzh(n))[1]
        /\ Len(stars[n].metal_hist) = Shape(Sfzh(n))[2]
    /\ (last.op = "add" /\ last.exc = "none") =>
        /\ stars[last.name].sf_hist =
               VecAdd(stars[last.self].sf_hist, stars[last.second].sf_hist)
        /\ stars[last.name].metal_hist =
               VecAdd(stars[last.self].metal_hist, stars[last.second].metal_hist)

\* C13's case: the sum of two sums, the operands built by different builders.
C13_Witness ==
    /\ last.op = "add"
    /\ last.exc = "none"
    /\ nAdds = 2
    /\ last.self = "a" /\ last.second = "b"
    /\ stars["a"].sf_hist # stars["b"].sf_hist
    /\ \E i \in DOMAIN stars["c"].metal_hist, k \in DOMAIN stars["c"].metal_hist :
           /\ stars["c"].metal_hist[i] # <<0, 1>>
           /\ stars["c"].metal_hist[k] # <<0, 1>>
           /\ stars["c"].metal_hist[i] # stars["c"].metal_hist[k]

\* ---------------------------------------------------------------- C14
\* The index of the metallicity bin nearest to z, the first one on a tie.
NearestBin(metallicities, z) ==
    CHOOSE j \in DOMAIN metallicities :
        /\ Nearest(metallicities, z, j)
        /\ \A k \in 1..(j - 1) : ~Nearest(metallicities, z, k)

\* Twice the integral of a constant rate, which lasts `duration` years, from
\* lo2/2 to hi2/2.
TwiceIntegral(sf_hist, lo2, hi2) ==
    sf_hist.rate * Max2(0, Min2(hi2, 2 * sf_hist.duration) - lo2)

\* Twice the weight of age bin ia between the exact midpoints with its
\* neighbours (from 0 for the first bin).
MidpointWeight2(ia) ==
    LET ages == Ages(last.log10ages)
    IN  TwiceIntegral(last.sf_hist,
                      IF ia = 1 THEN 0 ELSE ages[ia - 1] + ages[ia],
                      ages[ia] + ages[ia + 1])

\* Whether the density of the last call has, in each age row before the
\* last, the share weight(ia) / total of stellar_mass in the metallicity bin
\* nearest to metal_hist.Z(age) and zero elsewhere.
RowsHoldWeights(weight(_)) ==
    LET rows == 1..(Len(last.log10ages) - 1)
        total == SumSeq([ia \in rows |-> Int2Rat(weight(ia))])
        jn == NearestBin(last.metallicities, last.metal_hist.metallicity)
    IN  \A ia \in rows, j \in DOMAIN last.metallicities :
            Sfzh(last.name)[ia][j] =
                IF j = jn
                THEN RMul(Int2Rat(last.stellar_mass), RDiv(Int2Rat(weight(ia)), total))
                ELSE <<0, 1>>

\* C14: in generate_sfzh with a delta metallicity distribution,
\* each age bin's weight is the integral of the rate between the midpoint
\* with the previous bin and the midpoint with the next bin, the intervals
\* following one another without gap or overlap, and the whole weight of a
\* row lies in the metallicity bin nearest to metal_hist.Z(age), so that a
\* row has at most one non-zero cell.
C14_MidpointIntervals ==
    (last.op = "generate_sfzh" /\ last.metal_hist.dist = "delta") =>
        /\ RowsHoldWeights(MidpointWeight2)
        /\ \A ia \in DOMAIN last.log10ages :
               Cardinality({ c \in NonZeroCells(Sfzh(last.name)) : c[1] = ia }) <= 1

\* ---------------------------------------------------------------- C15
\* The covering fractions the top-level constructor was called with, the
\* defaults standing for those left out.
CalledCoveringFractions ==
    IF call.cls = "DiscEmission"
    THEN [nlr |-> Get(call.kwargs, "covering_fraction_nlr", DefaultCoveringFraction),
          blr |-> Get(call.kwargs, "covering_fraction_blr", DefaultCoveringFraction)]
    ELSE [nlr |-> call.covering_fraction_nlr, blr |-> call.covering_fraction_blr]

\* C15: in every graph DiscEmission or AGNIntrinsicEmission builds,
\* nlr_transmitted has fesc = cn, blr_transmitted has fesc = cb and
\* disc_escaped has fesc = 1 - cn - cb, for the covering fractions (cn, cb)
\* the top-level constructor was given or their defaults; so the escaped
\* node's fesc is 1 minus the sum of the two transmitted nodes' fesc.
C15_CoveringFractionsAgree ==
    (call.cls \in {"DiscEmission", "AGNIntrinsicEmission"} /\ model.exc = "none") =>
        LET c == CalledCoveringFractions
            nlr == model.nodes["nlr_transmitted"]
            blr == model.nodes["blr_transmitted"]
            escaped == model.nodes["disc_escaped"]
        IN  /\ nlr.fesc = c.nlr
            /\ blr.fesc = c.blr
            /\ escaped.fesc = One - c.nlr - c.blr
            /\ escaped.fesc = One - (nlr.fesc + blr.fesc)
            /\ nlr.line_region = "nlr" /\ blr.line_region = "blr"

\* AGNIntrinsicEmission built with two different covering fractions, neither
\* the default.
C15_Witness ==
    /\ call.cls = "AGNIntrinsicEmission"
    /\ model.exc = "none"
    /\ call.covering_fraction_nlr = MaxCovering
    /\ call.covering_fraction_blr = 0
    /\ model.nodes["disc_escaped"].fesc = One - MaxCovering
    /\ model.nodes["blr_transmitted"].fesc = 0

====
